---- MODULE Spec2Model ----
(***************************************************************************)
(* A model of the sampling and roster-binding engine of template-filler    *)
(* (src/fetcher.py): FlockFetcher, ProjectInfoFetcher and StudentFetcher.  *)
(*                                                                         *)
(* Texts are sequences of one-character strings, so that strip, lower and  *)
(* capitalize are computed and not assumed.  Python's None and pandas' NaN *)
(* are the two sentinels below; no text equals either of them.             *)
(***************************************************************************)
EXTENDS Integers, Sequences, FiniteSets, TLC

\* FlockFetcher
VARIABLES cache, mutex_counters, reads, epoch_reads, returned, drained_groups, last, nops

\* ProjectInfoFetcher
VARIABLES info_files, info_cache, info_reads, info_first, info_last, info_nops

\* StudentFetcher
VARIABLES stu_file, stu_cache, additional_columns, stu_pc, stu_d, stu_out, stu_fresh,
          stu_last, stu_nops, batch

\* Threads that call one FlockFetcher
VARIABLES threads, raced

flockVars == <<cache, mutex_counters, reads, epoch_reads, returned, drained_groups, last, nops>>

infoVars == <<info_files, info_cache, info_reads, info_first, info_last, info_nops>>

stuVars == <<stu_file, stu_cache, additional_columns, stu_pc, stu_d, stu_out, stu_fresh,
             stu_last, stu_nops, batch>>

conVars == <<threads, raced>>

vars == <<flockVars, infoVars, stuVars, conVars>>

-----------------------------------------------------------------------------
(* Bounds of the model.                                                    *)

\* Number of FlockFetcher calls (sample, clear_cache) in one behaviour of Spec.
MaxOps == 6

\* Number of ProjectInfoFetcher calls in one behaviour of SpecInfo.
MaxInfoOps == 4

\* Number of rows of a roster.
MaxRows == 2

\* Number of calls (set_cache, fetch, clear_cache) in one behaviour of SpecStudent.
MaxStuOps == 3

\* Number of sample calls of the two threads in one behaviour of SpecThreads.
MaxConOps == 5

-----------------------------------------------------------------------------
(* Values and text helpers.                                                *)

None == <<"<None>">>

NaN == <<"<NaN>">>

\* Python truthiness of a cell or argument: None and "" are falsy; NaN and
\* every non-empty text are truthy.
Truthy(v) == v # None /\ v # <<>>

\* str(v) for a text or NaN.
Str(v) == IF v = NaN THEN <<"n", "a", "n">> ELSE v

RECURSIVE LStrip(_)
LStrip(s) == IF s # <<>> /\ Head(s) = " " THEN LStrip(Tail(s)) ELSE s

RECURSIVE RStrip(_)
RStrip(s) == IF s # <<>> /\ s[Len(s)] = " " THEN RStrip(SubSeq(s, 1, Len(s) - 1)) ELSE s

\* str.strip()
Strip(s) == RStrip(LStrip(s))

UpperOf ==
    ("a" :> "A") @@ ("b" :> "B") @@ ("c" :> "C") @@ ("d" :> "D") @@ ("e" :> "E")
 @@ ("f" :> "F") @@ ("m" :> "M") @@ ("x" :> "X")

UpperChar(c) == IF c \in DOMAIN UpperOf THEN UpperOf[c] ELSE c

LowerChar(c) ==
    IF \E l \in DOMAIN UpperOf : UpperOf[l] = c
    THEN CHOOSE l \in DOMAIN UpperOf : UpperOf[l] = c
    ELSE c

\* str.lower()
Lower(s) == [i \in 1..Len(s) |-> LowerChar(s[i])]

\* global_utils.capitalize: the first letter in upper case, the rest unchanged
Capitalize(s) == IF s = <<>> THEN s ELSE <<UpperChar(Head(s))>> \o Tail(s)

Range(seq) == {seq[i] : i \in 1..Len(seq)}

-----------------------------------------------------------------------------------------------------------------------------------------------------
(* The phrase pool files <root>/<category>/<classLabel>.txt.  A file is    *)
(* its text; lines carry blanks, surrounding whitespace and duplicates.    *)

NL == "\n"

RECURSIVE Split(_, _)
\* text.split(sep): the segments between the separators, empty ones included
Split(text, sep) ==
    IF \A i \in 1..Len(text) : text[i] # sep THEN <<text>>
    ELSE LET i == CHOOSE j \in 1..Len(text) :
                      text[j] = sep /\ \A k \in 1..(j - 1) : text[k] # sep
         IN <<SubSeq(text, 1, i - 1)>> \o Split(SubSeq(text, i + 1, Len(text)), sep)

EvalCols == <<"participation", "overall", "assignment", "final">>

\* os.path.join(root_dir, col, cls + ".txt")
FPath(col, cls) == <<col, cls>>

\* The files on disk: a pool of three phrases, a pool of two, pools of one, and
\* a file of blank lines; every other path has no file.
PoolFiles ==
    (FPath("participation", <<"a">>) :> <<"a", NL, " ", "b", NL, NL, "c", " ", NL, "a">>)
 @@ (FPath("participation", <<"b">>) :> <<"a", NL, "b", NL, " ", NL, "b", " ">>)
 @@ (FPath("overall", <<"a">>) :> <<"a", NL>>)
 @@ (FPath("overall", <<"b">>) :> <<" ", NL>>)
 @@ (FPath("assignment", <<"a">>) :> <<"a">>)
 @@ (FPath("final", <<"a">>) :> <<" ", "a">>)

\* The (category, classLabel) pairs that calls ask for.
FlockPaths ==
    {FPath(EvalCols[i], cls) : i \in 1..Len(EvalCols),
                               cls \in {<<"a">>, <<"b">>, <<"c">>, <<"d">>, <<"e">>}}

FileExists(fpath) == fpath \in DOMAIN PoolFiles

\* {poss.strip() for poss in text.split('\n') if len(poss.strip()) != 0}
Possibilities(text) ==
    LET lines == Split(text, NL)
    IN {Strip(lines[i]) : i \in {j \in 1..Len(lines) : Len(Strip(lines[j])) # 0}}

\* What lines 42-43 compute from each file, computed once per file.
LoadedPools == [fpath \in DOMAIN PoolFiles |-> Possibilities(PoolFiles[fpath])]

\* read_textfile(fpath) followed by the set comprehension of line 43
LoadPool(fpath) == LoadedPools[fpath]

-----------------------------------------------------------------------------
(* collections.Counter and defaultdict(Counter).                           *)

EmptyDict == <<>>

\* counter[k] read: a missing key counts 0.
CounterGet(counter, k) == IF k \in DOMAIN counter THEN counter[k] ELSE 0

\* counter[choice] += 1 when the write is lost or misdirected: nothing changes.
CounterIncrLost(counter, choice) == counter

\* counter[choice] += 1
CounterIncr(counter, choice) ==
    [k \in DOMAIN counter \cup {choice} |->
        CounterGet(counter, k) + (IF k = choice THEN 1 ELSE 0)]

\* list(counter.elements()) is non-empty
HasElements(counter) == \E k \in DOMAIN counter : counter[k] > 0

MaxOf(S) == CHOOSE x \in S : \A y \in S : y <= x

MinOf(S) == CHOOSE x \in S : \A y \in S : x <= y

CounterValues(counter) == {counter[k] : k \in DOMAIN counter}

\* the assertion of line 52
AssertBalanced(counter) ==
    MaxOf(CounterValues(counter)) - MinOf(CounterValues(counter)) <= 1

\* most_used_keys of a sampler that never excludes anything
MostUsedKeysNone(counter) == {}

\* most_used_keys of a sampler that excludes every phrase already used
MostUsedKeysUsed(counter) == {k \in DOMAIN counter : counter[k] > 0}

\* most_used_keys, lines 51-56
MostUsedKeys(counter) ==
    IF HasElements(counter)
    THEN LET most_used_value == MaxOf(CounterValues(counter))
         IN {k \in DOMAIN counter : counter[k] = most_used_value}
    ELSE {}

\* self.mutex_counters[(mutex, col, cls)]: the read of a defaultdict creates the key.
CountersTouched(counters, key) ==
    IF key \in DOMAIN counters THEN counters ELSE counters @@ (key :> EmptyDict)

\* the choices of a no-mutex draw restricted to one group's eligible phrases
NoMutexChoicesFair(possibilities) ==
    possibilities \ UNION {MostUsedKeys(mutex_counters[g]) : g \in DOMAIN mutex_counters}

\* np.random.choice(list(possibilities)), line 47
NoMutexChoices(possibilities) == possibilities

\* self.cache[fpath] = possibilities when the store is forgotten
CacheStoreLost(c, fpath, possibilities) == c

\* self.cache[fpath] = possibilities, line 44
CacheStore(c, fpath, possibilities) == c @@ (fpath :> possibilities)

-----------------------------------------------------------------------------
(* FlockFetcher.  reads counts the read_textfile calls per pool file over  *)
(* the sampler's lifetime, epoch_reads those since construction or the     *)
(* last clear_cache; returned tallies, per mutex group, the phrases that   *)
(* mutex draws returned since then, and drained_groups holds the groups    *)
(* that took a fallback draw since then; last describes the latest call.   *)

GroupKey(mutex, col, cls) == <<mutex, col, cls>>

NoArg == <<"", <<>>, <<>>>>

LastRec(op, arg, status, result, drained, from) ==
    [op |-> op, arg |-> arg, status |-> status, result |-> result,
     drained |-> drained, from |-> from]

\* The tally of returned phrases after group key returned choice, line 68.
Tally(tally, key, choice) ==
    [g \in DOMAIN tally \cup {key} |->
        LET old == IF g \in DOMAIN tally THEN tally[g] ELSE <<>>
        IN [p \in DOMAIN old \cup (IF g = key THEN {choice} ELSE {}) |->
               (IF p \in DOMAIN old THEN old[p] ELSE 0)
                  + (IF g = key /\ p = choice THEN 1 ELSE 0)]]

FlockInit ==
    /\ cache = EmptyDict
    /\ mutex_counters = EmptyDict
    /\ reads = [p \in FlockPaths |-> 0]
    /\ epoch_reads = [p \in FlockPaths |-> 0]
    /\ returned = EmptyDict
    /\ drained_groups = {}
    /\ last = LastRec("init", NoArg, "ok", None, FALSE, {})
    /\ nops = 0

\* a failed read that leaves an empty pool behind
CacheAfterFailedReadEmpty(c, fpath) == c @@ (fpath :> {})

\* self.cache when read_textfile raises at line 42: line 44 is not reached
CacheAfterFailedRead(c, fpath) == c

\* FlockFetcher.sample(col, cls, mutex)
Sample(col, cls, mutex) ==
    LET fpath == FPath(col, cls)
        arg == <<col, cls, mutex>>
        hit == fpath \in DOMAIN cache
    IN
    IF ~hit /\ ~FileExists(fpath)
    THEN \* read_textfile raises: nothing was assigned
         /\ last' = LastRec("sample", arg, "FileNotFoundError", None, FALSE, {})
         /\ cache' = CacheAfterFailedRead(cache, fpath)
         /\ UNCHANGED <<mutex_counters, reads, epoch_reads, returned, drained_groups>>
    ELSE
    LET possibilities == IF hit THEN cache[fpath] ELSE LoadPool(fpath)
    IN
    /\ cache' = IF hit THEN cache ELSE CacheStore(cache, fpath, possibilities)
    /\ reads' = IF hit THEN reads ELSE [reads EXCEPT ![fpath] = @ + 1]
    /\ epoch_reads' = IF hit THEN epoch_reads ELSE [epoch_reads EXCEPT ![fpath] = @ + 1]
    /\ IF ~Truthy(mutex)
       THEN IF possibilities = {}
            THEN \* np.random.choice of an empty list raises
                 /\ last' = LastRec("sample", arg, "ValueError", None, FALSE, {})
                 /\ UNCHANGED <<mutex_counters, returned, drained_groups>>
            ELSE \E choice \in NoMutexChoices(possibilities) :
                 /\ last' = LastRec("sample", arg, "ok", choice, FALSE, possibilities)
                 /\ UNCHANGED <<mutex_counters, returned, drained_groups>>
       ELSE
       LET key == GroupKey(mutex, col, cls)
           touched == CountersTouched(mutex_counters, key)
           counter == touched[key]
       IN
       IF HasElements(counter) /\ ~AssertBalanced(counter)
       THEN /\ last' = LastRec("sample", arg, "AssertionError", None, FALSE, {})
            /\ mutex_counters' = touched
            /\ UNCHANGED <<returned, drained_groups>>
       ELSE
       LET new_possibilities == possibilities \ MostUsedKeys(counter)
           drained == new_possibilities = {}
           from == IF drained THEN possibilities ELSE new_possibilities
       IN
       IF from = {}
       THEN /\ last' = LastRec("sample", arg, "ValueError", None, drained, {})
            /\ mutex_counters' = touched
            /\ UNCHANGED <<returned, drained_groups>>
       ELSE \E choice \in from :
            /\ mutex_counters' = [touched EXCEPT ![key] = CounterIncr(counter, choice)]
            /\ returned' = Tally(returned, key, choice)
            /\ drained_groups' = IF drained THEN drained_groups \cup {key} ELSE drained_groups
            /\ last' = LastRec("sample", arg, "ok", choice, drained, from)

\* Fetcher.clear_cache alone: the pools go, the fairness counters stay
ClearedCountersKept(counters) == counters

\* self.mutex_counters = defaultdict(Counter), line 35
ClearedCounters(counters) == EmptyDict

\* FlockFetcher.clear_cache()
ClearCache ==
    /\ cache' = EmptyDict
    /\ mutex_counters' = ClearedCounters(mutex_counters)
    /\ returned' = EmptyDict
    /\ drained_groups' = {}
    /\ last' = LastRec("clear", NoArg, "ok", None, FALSE, {})
    /\ epoch_reads' = [p \in FlockPaths |-> 0]
    /\ UNCHANGED reads

MutexArgs == {None, <<>>, <<"m">>, <<"n">>}

\* The pools that direct sample calls ask for: of three phrases, of one, of
\* none, and one whose file is absent.
SampleTargets ==
    {FPath("participation", <<"a">>), FPath("overall", <<"a">>),
     FPath("overall", <<"b">>), FPath("overall", <<"c">>)}

\* a direct call of sample
FlockSample ==
    /\ nops < MaxOps
    /\ nops' = nops + 1
    /\ \E target \in SampleTargets, mutex \in MutexArgs :
          Sample(target[1], target[2], mutex)
    /\ UNCHANGED <<infoVars, stuVars, conVars>>

\* a direct call of clear_cache
FlockClear ==
    /\ nops < MaxOps
    /\ nops' = nops + 1
    /\ ClearCache
    /\ UNCHANGED <<infoVars, stuVars, conVars>>

\* The pools that calls on several mutex groups ask for: groups that differ
\* in mutex, in category and in classLabel, each over a pool with phrases.
GroupTargets ==
    {FPath("participation", <<"a">>), FPath("participation", <<"b">>), FPath("overall", <<"a">>)}

GroupMutexes == {<<"m">>, <<"n">>}

\* a direct call of sample with a non-empty mutex
FlockSampleMutex ==
    /\ nops < MaxOps
    /\ nops' = nops + 1
    /\ \E target \in GroupTargets, mutex \in GroupMutexes :
          Sample(target[1], target[2], mutex)
    /\ UNCHANGED <<infoVars, stuVars, conVars>>

-----------------------------------------------------------------------------
(* Two threads calling sample on one FlockFetcher.  A call runs in three   *)
(* steps between which the other thread may run: lines 38-65 up to the     *)
(* choice, then the two halves of counter[choice] += 1: the read of the    *)
(* count and the store of the count plus one.  raced holds the mutex       *)
(* groups on which a call began while another call on the same group was   *)
(* under way.                                                              *)

Threads == {1, 2}

IdleThread ==
    [pc |-> "idle", arg |-> NoArg, choice |-> None, val |-> 0, drained |-> FALSE, from |-> {}]

ConInit ==
    /\ threads = [t \in Threads |-> IdleThread]
    /\ raced = {}

\* the mutex group a thread's call works on
ThreadGroup(t) == GroupKey(threads[t].arg[3], threads[t].arg[1], threads[t].arg[2])

\* a store half that writes back the count it read, not the count plus one
CounterStoreStale(counter, choice, v) ==
    [k \in DOMAIN counter \cup {choice} |-> IF k = choice THEN v - 1 ELSE counter[k]]

\* counter[choice] = v, the store half of line 66
CounterStore(counter, choice, v) ==
    [k \in DOMAIN counter \cup {choice} |-> IF k = choice THEN v ELSE counter[k]]

\* sample(col, cls, mutex) of thread t with a non-empty mutex, lines 38-65
SampleChoose(t, col, cls, mutex) ==
    LET fpath == FPath(col, cls)
        arg == <<col, cls, mutex>>
        hit == fpath \in DOMAIN cache
    IN
    IF ~hit /\ ~FileExists(fpath)
    THEN /\ last' = LastRec("sample", arg, "FileNotFoundError", None, FALSE, {})
         /\ UNCHANGED <<cache, mutex_counters, reads, epoch_reads, threads, raced>>
    ELSE
    LET possibilities == IF hit THEN cache[fpath] ELSE LoadPool(fpath)
        key == GroupKey(mutex, col, cls)
        touched == CountersTouched(mutex_counters, key)
        counter == touched[key]
    IN
    /\ cache' = IF hit THEN cache ELSE CacheStore(cache, fpath, possibilities)
    /\ reads' = IF hit THEN reads ELSE [reads EXCEPT ![fpath] = @ + 1]
    /\ epoch_reads' = IF hit THEN epoch_reads ELSE [epoch_reads EXCEPT ![fpath] = @ + 1]
    /\ mutex_counters' = touched
    /\ IF HasElements(counter) /\ ~AssertBalanced(counter)
       THEN /\ last' = LastRec("sample", arg, "AssertionError", None, FALSE, {})
            /\ UNCHANGED <<threads, raced>>
       ELSE
       LET new_possibilities == possibilities \ MostUsedKeys(counter)
           drained == new_possibilities = {}
           from == IF drained THEN possibilities ELSE new_possibilities
       IN
       IF from = {}
       THEN /\ last' = LastRec("sample", arg, "ValueError", None, drained, {})
            /\ UNCHANGED <<threads, raced>>
       ELSE \E choice \in from :
            /\ threads' = [threads EXCEPT ![t] =
                              [pc |-> "chosen", arg |-> arg, choice |-> choice, val |-> 0,
                               drained |-> drained, from |-> from]]
            /\ raced' = IF \E u \in Threads \ {t} :
                               threads[u].pc # "idle" /\ ThreadGroup(u) = key
                        THEN raced \cup {key} ELSE raced
            /\ UNCHANGED last

\* the read half of counter[choice] += 1, line 66
SampleIncrRead(t) ==
    /\ threads[t].pc = "chosen"
    /\ threads' = [threads EXCEPT ![t].pc = "read",
                                  ![t].val = CounterGet(mutex_counters[ThreadGroup(t)],
                                                        threads[t].choice)]
    /\ UNCHANGED <<cache, mutex_counters, reads, epoch_reads, returned, drained_groups, last,
                   raced>>

\* the store half of counter[choice] += 1 and return choice, lines 66-68
SampleIncrWrite(t) ==
    LET key == ThreadGroup(t)
        th == threads[t]
    IN
    /\ th.pc = "read"
    /\ mutex_counters' = [mutex_counters EXCEPT
                             ![key] = CounterStore(@, th.choice, th.val + 1)]
    /\ returned' = Tally(returned, key, th.choice)
    /\ drained_groups' = IF th.drained THEN drained_groups \cup {key} ELSE drained_groups
    /\ last' = LastRec("sample", th.arg, "ok", th.choice, th.drained, th.from)
    /\ threads' = [threads EXCEPT ![t] = IdleThread]
    /\ UNCHANGED <<cache, reads, epoch_reads, raced>>

\* The pools and the mutex values that the threads ask for.
ConTargets == {FPath("participation", <<"b">>), FPath("overall", <<"a">>)}

ConMutexes == {<<"m">>, <<"n">>}

\* a thread calls sample
ThreadBegin ==
    /\ nops < MaxConOps
    /\ nops' = nops + 1
    /\ \E t \in Threads, target \in ConTargets, mutex \in ConMutexes :
          /\ threads[t].pc = "idle"
          /\ SampleChoose(t, target[1], target[2], mutex)
    /\ UNCHANGED <<returned, drained_groups, infoVars, stuVars>>

\* a thread reads the count of its choice
ThreadRead ==
    /\ \E t \in Threads : SampleIncrRead(t)
    /\ UNCHANGED <<nops, infoVars, stuVars>>

\* a thread stores the count of its choice and returns
ThreadWrite ==
    /\ \E t \in Threads : SampleIncrWrite(t)
    /\ UNCHANGED <<nops, infoVars, stuVars>>

-----------------------------------------------------------------------------
(* Fillables.  The parser and the blocks are outside this core: a Fillable *)
(* records how it was made (kind), from what text or parts, and the slot   *)
(* names that were bound when it was filled.                               *)

MakeFillable(kind, text, parts, seen) ==
    [kind |-> kind, text |-> text, parts |-> parts, seen |-> seen]

Atom(text) == MakeFillable("Atom", text, <<>>, {})

ParseSentence(text) == MakeFillable("sentence", text, <<>>, {})

ParseParagraph(text) == MakeFillable("paragraph", text, <<>>, {})

Block(parts) == MakeFillable("Block", <<>>, parts, {})

\* nonempty_segments(text, sep)
NonemptySegments(text, sep) == SelectSeq(Split(text, sep), LAMBDA seg : Len(seg) # 0)

\* [Atom(d) for d in texts]
AtomEach(texts) == [i \in 1..Len(texts) |-> Atom(texts[i])]

\* [parser.parse_sentence(d) for d in texts]
ParseSentenceEach(texts) == [i \in 1..Len(texts) |-> ParseSentence(texts[i])]

-----------------------------------------------------------------------------
(* ProjectInfoFetcher.  A cached value is a scalar or a list; info_reads   *)
(* counts the reads of each metadata file, info_first is the form asked by *)
(* the first fetch since construction or the last clear_cache.             *)

InfoKeys == {"program_description", "instructor_signature", "date", "program_name"}

Scalar(f) == [islist |-> FALSE, items |-> <<f>>]

List(fs) == [islist |-> TRUE, items |-> fs]

\* The metadata files a project may hold.
InfoFileSets ==
    [program_description : {<<"D">>},
     instructor_signature : {<<"S">>, <<"S", NL, "T">>},
     date : {<<"1">>, <<"1", NL, "2">>, <<"1", NL, NL, "2", NL, "3">>, <<NL>>},
     program_name : {<<"P">>}]

\* set_cache that caches the verbatim form whatever it is asked
BuildCacheVerbatim(files, verbatim) ==
    ("program_description" :> Scalar(Atom(files.program_description)))
 @@ ("instructor_signature" :> Scalar(Atom(files.instructor_signature)))
 @@ ("date" :> List(AtomEach(NonemptySegments(files.date, NL))))
 @@ ("program_name" :> Scalar(Atom(files.program_name)))

\* the cache that set_cache(verbatim) assigns, lines 110-135
BuildCache(files, verbatim) ==
    LET date == NonemptySegments(files.date, NL)
    IN IF verbatim
       THEN ("program_description" :> Scalar(Atom(files.program_description)))
         @@ ("instructor_signature" :> Scalar(Atom(files.instructor_signature)))
         @@ ("date" :> List(AtomEach(date)))
         @@ ("program_name" :> Scalar(Atom(files.program_name)))
       ELSE ("program_description" :> Scalar(ParseParagraph(files.program_description)))
         @@ ("instructor_signature" :>
                Scalar(Block(ParseSentenceEach(Split(files.instructor_signature, NL)))))
         @@ ("date" :> List(ParseSentenceEach(date)))
         @@ ("program_name" :> Scalar(ParseSentence(files.program_name)))

\* a fetch that rebuilds the cache on every call
NeedsBuildAlways(c) == TRUE

\* len(self.cache) == 0, line 105
NeedsBuild(c) == DOMAIN c = {}

\* The index choices of sample_from_cache: one index per key, within the value.
Picks(c) == {pick \in [DOMAIN c -> 1..3] : \A k \in DOMAIN c : pick[k] <= Len(c[k].items)}

\* a sample_from_cache that always takes the first item of a list
SampleFromCacheFirst(c, pick) == [k \in DOMAIN c |-> c[k].items[1]]

\* sample_from_cache with np.random.choice picking items[pick[k]] of every list
SampleFromCache(c, pick) ==
    [k \in DOMAIN c |-> IF c[k].islist THEN c[k].items[pick[k]] ELSE c[k].items[1]]

InfoLast(op, verbatim, status, result) ==
    [op |-> op, verbatim |-> verbatim, status |-> status, result |-> result]

InfoInit ==
    /\ info_files \in InfoFileSets
    /\ info_cache = EmptyDict
    /\ info_reads = [k \in InfoKeys |-> 0]
    /\ info_first = "none"
    /\ info_last = InfoLast("init", FALSE, "ok", EmptyDict)
    /\ info_nops = 0

\* the project fetcher is not used
InfoIdle ==
    /\ info_files = [program_description |-> <<>>, instructor_signature |-> <<>>,
                     date |-> <<>>, program_name |-> <<>>]
    /\ info_cache = EmptyDict
    /\ info_reads = [k \in InfoKeys |-> 0]
    /\ info_first = "none"
    /\ info_last = InfoLast("init", FALSE, "ok", EmptyDict)
    /\ info_nops = 0

FormOf(verbatim) == IF verbatim THEN "verbatim" ELSE "parsed"

\* ProjectInfoFetcher.fetch(verbatim)
InfoFetch(verbatim) ==
    LET build == NeedsBuild(info_cache)
        c == IF build THEN BuildCache(info_files, verbatim) ELSE info_cache
    IN
    /\ info_nops < MaxInfoOps
    /\ info_nops' = info_nops + 1
    /\ info_cache' = c
    /\ info_reads' = IF build THEN [k \in InfoKeys |-> info_reads[k] + 1] ELSE info_reads
    /\ info_first' = IF info_first = "none" THEN FormOf(verbatim) ELSE info_first
    /\ IF \E k \in DOMAIN c : c[k].islist /\ c[k].items = <<>>
       THEN \* np.random.choice of an empty list raises
            info_last' = InfoLast("fetch", verbatim, "ValueError", EmptyDict)
       ELSE \E pick \in Picks(c) :
            info_last' = InfoLast("fetch", verbatim, "ok", SampleFromCache(c, pick))
    /\ UNCHANGED <<info_files, flockVars, stuVars, conVars>>

InfoFetchVerbatim == InfoFetch(TRUE)

InfoFetchParsed == InfoFetch(FALSE)

\* Fetcher.clear_cache() on the project fetcher
InfoClear ==
    /\ info_nops < MaxInfoOps
    /\ info_nops' = info_nops + 1
    /\ info_cache' = EmptyDict
    /\ info_first' = "none"
    /\ info_last' = InfoLast("clear", FALSE, "ok", EmptyDict)
    /\ UNCHANGED <<info_files, info_reads, flockVars, stuVars, conVars>>


-----------------------------------------------------------------------------
(* StudentFetcher.  The roster file is a table: its header and its rows,   *)
(* each row a mapping from the header's columns to cells.  stu_cache is    *)
(* self.cache (present = FALSE stands for None).  A fetch walks the rows   *)
(* and, per row, the four evaluation columns: stu_pc is its position,      *)
(* stu_d the mapping of the row being bound, stu_out the rows bound so far.*)
(* stu_fresh tells whether the shared FlockFetcher held no counter when    *)
(* the latest fetch began.                                                 *)

BasicColumns ==
    <<"first_name", "last_name", "gender", "assignment", "participation", "final", "overall">>

\* the columns check_rows validates after gender, in its order
GradeCols == <<"assignment", "participation", "final", "overall">>

ValidGenders == {<<"M">>, <<"F">>}

\* a check_rows that also lets the grade E pass
ValidGradesWide == {<<"A">>, <<"B">>, <<"C">>, <<"D">>, <<"E">>}

ValidGrades == {<<"A">>, <<"B">>, <<"C">>, <<"D">>}

NoTable == [present |-> FALSE, header |-> <<>>, rows |-> <<>>]

Table(header, rows) == [present |-> TRUE, header |-> header, rows |-> rows]

MkRow(first, gender, assignment, participation, final, overall, mutex) ==
    ("first_name" :> first) @@ ("last_name" :> <<"Z">>) @@ ("gender" :> gender)
 @@ ("assignment" :> assignment) @@ ("participation" :> participation)
 @@ ("final" :> final) @@ ("overall" :> overall) @@ ("mutex" :> mutex)

\* The rows a roster is made of: valid ones in the same and in different mutex
\* groups, cells that need trimming and capitalizing, an unknown gender, an
\* unknown grade, an empty mutex cell (NaN), a blank one, and a grade whose
\* pool file is absent.
RowPool ==
    {MkRow(<<"a", "l">>, <<"F">>, <<"A">>, <<"A">>, <<"A">>, <<"A">>, <<"m">>),
     MkRow(<<" ", "b", "o">>, <<" ", "m">>, <<"A">>, <<"a", " ">>, <<"A">>, <<"a">>, <<" ", "m">>),
     MkRow(<<"C", "y">>, <<"M">>, <<"A">>, <<"B">>, <<"A">>, <<"A">>, <<"m">>),
     MkRow(<<"D", "i">>, <<"X">>, <<"A">>, <<"A">>, <<"A">>, <<"A">>, NaN),
     MkRow(<<"E", "d">>, <<"F">>, <<"A">>, <<"A">>, <<"E">>, <<"A">>, <<"n">>),
     MkRow(<<"F", "y">>, <<"M">>, <<"A">>, <<"C">>, <<"A">>, <<"A">>, <<" ">>)}

\* The headers a roster may have: the basic columns alone, with a mutex column,
\* without overall, and without gender and final.
Headers ==
    {BasicColumns,
     BasicColumns \o <<"mutex">>,
     <<"first_name", "last_name", "gender", "assignment", "participation", "final", "mutex">>,
     <<"first_name", "last_name", "assignment", "participation", "overall">>}

RowSeqs == UNION {[1..n -> RowPool] : n \in 0..MaxRows}

Restrict(row, header) == [c \in Range(header) |-> row[c]]

\* The roster files: absent, not decodable, or a table.
RosterFiles ==
    {[exists |-> FALSE, decodes |-> FALSE, header |-> <<>>, rows |-> <<>>],
     [exists |-> TRUE, decodes |-> FALSE, header |-> <<>>, rows |-> <<>>]}
    \cup {[exists |-> TRUE, decodes |-> TRUE, header |-> h,
           rows |-> [i \in 1..Len(rs) |-> Restrict(rs[i], h)]] : h \in Headers, rs \in RowSeqs}

NoErr == [kind |-> "", col |-> "", row |-> 0]

Err(kind, col, row) == [kind |-> kind, col |-> col, row |-> row]

\* a _preprocess_column that leaves the column as the file has it
PreprocessColumnRaw(table, col) == table

\* _preprocess_column(col_name)
PreprocessColumn(table, col) ==
    [table EXCEPT !.rows =
        [i \in 1..Len(table.rows) |->
            [table.rows[i] EXCEPT ![col] = Capitalize(Strip(table.rows[i][col]))]]]

RECURSIVE CheckColumns(_, _)
\* the loop of lines 169-173 from the i-th basic column on
CheckColumns(table, i) ==
    IF i > Len(BasicColumns)
    THEN [status |-> "ok", err |-> NoErr, table |-> table]
    ELSE IF BasicColumns[i] \notin Range(table.header)
    THEN [status |-> "ValueError", err |-> Err("missing_column", BasicColumns[i], 0),
          table |-> table]
    ELSE CheckColumns(PreprocessColumn(table, BasicColumns[i]), i + 1)

\* What check_rows raises for one row: the first check that fails, or NoErr.
RowError(row, i) ==
    IF row["gender"] \notin ValidGenders THEN Err("gender", "gender", i)
    ELSE IF \E j \in 1..Len(GradeCols) : row[GradeCols[j]] \notin ValidGrades
    THEN Err("grade",
             GradeCols[MinOf({j \in 1..Len(GradeCols) : row[GradeCols[j]] \notin ValidGrades})],
             i)
    ELSE NoErr

\* check_rows()
CheckRows(table) ==
    LET bad == {i \in 1..Len(table.rows) : RowError(table.rows[i], i) # NoErr}
    IN IF bad = {} THEN NoErr ELSE RowError(table.rows[MinOf(bad)], MinOf(bad))

\* StudentFetcher.set_cache(): how it ends and what it leaves in self.cache
\* and self.additional_columns
SetCacheOutcome(file, c, additional) ==
    IF ~file.exists
    THEN [status |-> "FileNotFoundError", err |-> NoErr, cache |-> c, additional |-> additional]
    ELSE IF ~file.decodes
    THEN [status |-> "ValueError", err |-> Err("encoding", "", 0), cache |-> c,
          additional |-> additional]
    ELSE LET cols == CheckColumns(Table(file.header, file.rows), 1)
         IN IF cols.status # "ok"
            THEN [status |-> cols.status, err |-> cols.err, cache |-> cols.table,
                  additional |-> additional]
            ELSE LET rowerr == CheckRows(cols.table)
                 IN [status |-> IF rowerr = NoErr THEN "ok" ELSE "ValueError",
                     err |-> rowerr, cache |-> cols.table,
                     additional |-> SelectSeq(file.header,
                                              LAMBDA c2 : c2 \notin Range(BasicColumns))]

\* a fetch_row that binds the pronouns of the other gender
PronounSwapped(gender, m, f) == IF gender = <<"M">> THEN f ELSE m

\* 'he' if row['gender'] == "M" else 'she'
Pronoun(gender, m, f) == IF gender = <<"M">> THEN m ELSE f

\* the dict literal of fetch_row, lines 207-218
Seed(row) ==
    ("first_name" :> Atom(row["first_name"]))
 @@ ("last_name" :> Atom(row["last_name"]))
 @@ ("he" :> Atom(Pronoun(row["gender"], <<"h", "e">>, <<"s", "h", "e">>)))
 @@ ("him" :> Atom(Pronoun(row["gender"], <<"h", "i", "m">>, <<"h", "e", "r">>)))
 @@ ("his" :> Atom(Pronoun(row["gender"], <<"h", "i", "s">>, <<"h", "e", "r">>)))
 @@ ("himself" :> Atom(Pronoun(row["gender"], <<"h", "i", "m", "s", "e", "l", "f">>,
                                              <<"h", "e", "r", "s", "e", "l", "f">>)))
 @@ ("He" :> Atom(Pronoun(row["gender"], <<"H", "e">>, <<"S", "h", "e">>)))
 @@ ("Him" :> Atom(Pronoun(row["gender"], <<"H", "i", "m">>, <<"H", "e", "r">>)))
 @@ ("His" :> Atom(Pronoun(row["gender"], <<"H", "i", "s">>, <<"H", "e", "r">>)))
 @@ ("Himself" :> Atom(Pronoun(row["gender"], <<"H", "i", "m", "s", "e", "l", "f">>,
                                              <<"H", "e", "r", "s", "e", "l", "f">>)))

SeedColumns == {"first_name", "last_name", "gender"}

\* the mutex of a fetch_flock that forgets to trim
FlockMutexRaw(row) ==
    IF "mutex" \notin DOMAIN row THEN None
    ELSE IF Truthy(row["mutex"]) THEN Str(row["mutex"]) ELSE row["mutex"]

\* fetch_flock, lines 199-201: mutex = row.get('mutex'), trimmed when truthy
FlockMutex(row) ==
    IF "mutex" \notin DOMAIN row THEN None
    ELSE IF Truthy(row["mutex"]) THEN Strip(Str(row["mutex"])) ELSE row["mutex"]

\* f'{prefix}_{col}' with prefix 'sent'
SlotTag(col) == "sent" \o "_" \o col

\* parser.parse(sample, ret_type=sample_type)
Parse(text, ret_type) == MakeFillable(ret_type, text, <<>>, {})

\* FlockFetcher.fetch: {tag: block_constructor([parsed sample], atomic=False)}
FlockFetchResult(tag, sample, sample_type, wrap_with) ==
    tag :> MakeFillable(wrap_with, <<>>, <<Parse(sample, sample_type)>>, {})

\* fill_(d): the cross-references are resolved against the slots bound in d
Fill(f, d) == [f EXCEPT !.seen = DOMAIN d]

\* parser.parse_by_tag(col, text)
ParseByTag(col, text) == col :> MakeFillable("tag", text, <<>>, {})

\* a binding that merges slot_data into d before it fills
BindMergedFirst(d, slot_data) ==
    [k \in DOMAIN slot_data |-> Fill(slot_data[k], slot_data @@ d)] @@ d

\* for k in slot_data: slot_data[k].fill_(d), then d.update(slot_data)
Bind(d, slot_data) == [k \in DOMAIN slot_data |-> Fill(slot_data[k], d)] @@ d

RECURSIVE BindAdditional(_, _, _, _)
\* the loop of lines 227-231 from the i-th additional column on
BindAdditional(d, row, cols, i) ==
    IF i > Len(cols) THEN d
    ELSE BindAdditional(Bind(d, ParseByTag(cols[i], Str(row[cols[i]]))), row, cols, i + 1)

\* the phrase that a bound evaluation slot holds
PhraseOf(f) == f.parts[1].text

Idle == [row |-> 0, col |-> 0]

StuLast(op, ran_load, load, status, err, result) ==
    [op |-> op, ran_load |-> ran_load, load |-> load, status |-> status, err |-> err,
     result |-> result]

StuInit ==
    /\ stu_file \in RosterFiles
    /\ stu_cache = NoTable
    /\ additional_columns = <<>>
    /\ stu_pc = Idle
    /\ stu_d = EmptyDict
    /\ stu_out = <<>>
    /\ stu_fresh = TRUE
    /\ stu_last = StuLast("init", FALSE, "none", "ok", NoErr, <<>>)
    /\ stu_nops = 0
    /\ batch = 1

\* the student fetcher is not used
StuIdle ==
    /\ stu_file = [exists |-> FALSE, decodes |-> FALSE, header |-> <<>>, rows |-> <<>>]
    /\ stu_cache = NoTable
    /\ additional_columns = <<>>
    /\ stu_pc = Idle
    /\ stu_d = EmptyDict
    /\ stu_out = <<>>
    /\ stu_fresh = TRUE
    /\ stu_last = StuLast("init", FALSE, "none", "ok", NoErr, <<>>)
    /\ stu_nops = 0
    /\ batch = 1

\* StudentFetcher.set_cache() called directly
StuSetCache ==
    /\ stu_pc = Idle
    /\ stu_nops < MaxStuOps
    /\ stu_nops' = stu_nops + 1
    /\ LET o == SetCacheOutcome(stu_file, stu_cache, additional_columns)
       IN /\ stu_cache' = o.cache
          /\ additional_columns' = o.additional
          /\ stu_last' = StuLast("set_cache", TRUE, o.status, o.status, o.err, <<>>)
    /\ UNCHANGED <<stu_file, stu_pc, stu_d, stu_out, stu_fresh, batch, flockVars, infoVars,
                   conVars>>

\* StudentFetcher.clear_cache()
StuClear ==
    /\ stu_pc = Idle
    /\ stu_nops < MaxStuOps
    /\ stu_nops' = stu_nops + 1
    /\ stu_cache' = NoTable
    /\ stu_last' = StuLast("clear", FALSE, "none", "ok", NoErr, <<>>)
    /\ UNCHANGED <<stu_file, additional_columns, stu_pc, stu_d, stu_out, stu_fresh, batch,
                   flockVars, infoVars, conVars>>

\* clear_cache() of the shared FlockFetcher, between two calls of the student fetcher
StuFlockClear ==
    /\ stu_pc = Idle
    /\ stu_nops < MaxStuOps
    /\ stu_nops' = stu_nops + 1
    /\ ClearCache
    /\ UNCHANGED <<nops, infoVars, conVars, stu_file, stu_cache, additional_columns, stu_pc, stu_d,
                   stu_out, stu_fresh, stu_last, batch>>

\* StudentFetcher.fetch() up to the first draw: the load when self.cache is
\* None, then the dict literal of the first row
StuFetchBegin ==
    /\ stu_pc = Idle
    /\ stu_nops < MaxStuOps
    /\ stu_nops' = stu_nops + 1
    /\ stu_fresh' = (mutex_counters = EmptyDict)
    /\ LET need == ~stu_cache.present
           o == IF need THEN SetCacheOutcome(stu_file, stu_cache, additional_columns)
                ELSE [status |-> "ok", err |-> NoErr, cache |-> stu_cache,
                      additional |-> additional_columns]
           load == IF need THEN o.status ELSE "none"
       IN /\ stu_cache' = o.cache
          /\ additional_columns' = o.additional
          /\ stu_out' = <<>>
          /\ IF o.status # "ok"
             THEN /\ stu_last' = StuLast("fetch", need, load, o.status, o.err, <<>>)
                  /\ UNCHANGED <<stu_pc, stu_d>>
             ELSE IF o.cache.rows = <<>>
             THEN /\ stu_last' = StuLast("fetch", need, load, "ok", NoErr, <<>>)
                  /\ UNCHANGED <<stu_pc, stu_d>>
             ELSE IF ~(SeedColumns \subseteq DOMAIN o.cache.rows[1])
             THEN /\ stu_last' = StuLast("fetch", need, load, "KeyError", NoErr, <<>>)
                  /\ UNCHANGED <<stu_pc, stu_d>>
             ELSE /\ stu_last' = StuLast("fetch", need, load, "running", NoErr, <<>>)
                  /\ stu_pc' = [row |-> 1, col |-> 1]
                  /\ stu_d' = Seed(o.cache.rows[1])
    /\ UNCHANGED <<stu_file, batch, flockVars, infoVars, conVars>>

\* One turn of the loop of lines 220-224: fetch_flock for the current row and
\* column; after the fourth column the additional columns are bound, the row's
\* mapping is complete and the next row begins, or fetch returns.
StuFetchStep ==
    /\ stu_pc # Idle
    /\ LET r == stu_pc.row
           col == EvalCols[stu_pc.col]
           row == stu_cache.rows[r]
       IN
       IF col \notin DOMAIN row
       THEN \* row[col] raises
            /\ stu_last' = [stu_last EXCEPT !.status = "KeyError"]
            /\ stu_pc' = Idle /\ stu_d' = EmptyDict /\ stu_out' = <<>>
            /\ UNCHANGED flockVars
       ELSE
       /\ Sample(col, Lower(row[col]), FlockMutex(row))
       /\ UNCHANGED nops
       /\ IF last'.status # "ok"
          THEN \* the error of sample leaves fetch as it is
               /\ stu_last' = [stu_last EXCEPT !.status = last'.status]
               /\ stu_pc' = Idle /\ stu_d' = EmptyDict /\ stu_out' = <<>>
          ELSE
          LET d1 == Bind(stu_d, FlockFetchResult(SlotTag(col), last'.result,
                                                 "paragraph", "paragraph"))
          IN
          IF stu_pc.col < Len(EvalCols)
          THEN /\ stu_pc' = [row |-> r, col |-> stu_pc.col + 1]
               /\ stu_d' = d1
               /\ UNCHANGED <<stu_out, stu_last>>
          ELSE
          LET out1 == Append(stu_out, BindAdditional(d1, row, additional_columns, 1))
          IN
          IF r < Len(stu_cache.rows)
          THEN /\ stu_pc' = [row |-> r + 1, col |-> 1]
               /\ stu_d' = Seed(stu_cache.rows[r + 1])
               /\ stu_out' = out1
               /\ UNCHANGED stu_last
          ELSE /\ stu_pc' = Idle /\ stu_d' = EmptyDict /\ stu_out' = <<>>
               /\ stu_last' = [stu_last EXCEPT !.status = "ok", !.result = out1]
    /\ UNCHANGED <<stu_file, stu_cache, additional_columns, stu_fresh, stu_nops, batch,
                   infoVars, conVars>>

-----------------------------------------------------------------------------
(* FileSystemManager.handle.  Every upload is one batch: get_controller    *)
(* builds the fetchers of the batch and the controller then calls          *)
(* set_cache and fetch on them.  The variables hold the fetchers of the    *)
(* current batch, batch is its number; reads counts the reads of a pool    *)
(* file of a (category, classLabel) over all batches.                      *)

\* The rosters a later upload may bring: with a mutex column and one or more
\* valid rows of the mutex group m.
BatchRosters ==
    {f \in RosterFiles :
        /\ f.exists /\ f.decodes
        /\ f.header = BasicColumns \o <<"mutex">>
        /\ f.rows # <<>>
        /\ \A i \in 1..Len(f.rows) :
              /\ Strip(Str(f.rows[i]["mutex"])) = <<"m">>
              /\ f.rows[i]["gender"] \in {<<"F">>, <<"M">>, <<" ", "m">>}}

\* a FlockFetcher kept from one batch to the next
CountersOfNewFetcherShared(counters) == counters

\* FlockFetcher(...) in get_controller: self.mutex_counters = defaultdict(Counter)
CountersOfNewFetcher(counters) == EmptyDict

\* get_controller for the next upload: a FlockFetcher, a ProjectInfoFetcher
\* and a StudentFetcher are constructed over the extracted project
GetController ==
    /\ stu_pc = Idle
    /\ stu_nops < MaxStuOps
    /\ stu_nops' = stu_nops + 1
    /\ batch' = batch + 1
    /\ stu_file' \in {stu_file} \cup BatchRosters
    /\ cache' = EmptyDict
    /\ mutex_counters' = CountersOfNewFetcher(mutex_counters)
    /\ epoch_reads' = [p \in FlockPaths |-> 0]
    /\ returned' = EmptyDict
    /\ drained_groups' = {}
    /\ last' = LastRec("init", NoArg, "ok", None, FALSE, {})
    /\ stu_cache' = NoTable
    /\ additional_columns' = <<>>
    /\ stu_d' = EmptyDict
    /\ stu_out' = <<>>
    /\ stu_fresh' = TRUE
    /\ stu_last' = StuLast("init", FALSE, "none", "ok", NoErr, <<>>)
    /\ info_cache' = EmptyDict
    /\ info_first' = "none"
    /\ UNCHANGED <<reads, nops, stu_pc, info_files, info_reads, info_last, info_nops, conVars>>

-----------------------------------------------------------------------------
(* Specifications: Spec is one FlockFetcher called directly, SpecInfo one  *)
(* ProjectInfoFetcher, SpecStudent one StudentFetcher with its own         *)
(* FlockFetcher over one roster file, SpecHandle a sequence of uploads     *)
(* each with its own fetchers, SpecGroups one FlockFetcher called          *)
(* for several mutex groups, SpecThreads one FlockFetcher called by two    *)
(* threads.                                                                *)

Init == FlockInit /\ InfoIdle /\ StuIdle /\ ConInit

Next == FlockSample \/ FlockClear

Spec == Init /\ [][Next]_vars

InitInfo == FlockInit /\ InfoInit /\ StuIdle /\ ConInit

NextInfo == InfoFetchVerbatim \/ InfoFetchParsed \/ InfoClear

SpecInfo == InitInfo /\ [][NextInfo]_vars

InitStudent == FlockInit /\ InfoIdle /\ StuInit /\ ConInit

NextStudent == StuSetCache \/ StuClear \/ StuFlockClear \/ StuFetchBegin \/ StuFetchStep

SpecStudent == InitStudent /\ [][NextStudent]_vars

NextHandle == GetController \/ StuSetCache \/ StuFetchBegin \/ StuFetchStep

SpecHandle == InitStudent /\ [][NextHandle]_vars

NextGroups == FlockSampleMutex \/ FlockClear

SpecGroups == Init /\ [][NextGroups]_vars

NextThreads == ThreadBegin \/ ThreadRead \/ ThreadWrite

SpecThreads == Init /\ [][NextThreads]_vars

-----------------------------------------------------------------------------
(* Properties of FlockFetcher, checked under Spec.                         *)

RECURSIVE SumOver(_, _)
SumOver(counter, S) ==
    IF S = {} THEN 0
    ELSE LET k == CHOOSE x \in S : TRUE IN counter[k] + SumOver(counter, S \ {k})

Total(counter) == SumOver(counter, DOMAIN counter)

\* The pool a call for (col, cls) works on: the cached one, else the file's.
CurrentPool(col, cls) ==
    IF FPath(col, cls) \in DOMAIN cache THEN cache[FPath(col, cls)]
    ELSE IF FileExists(FPath(col, cls)) THEN LoadPool(FPath(col, cls))
    ELSE {}

PoolOf(g) == CurrentPool(g[2], g[3])

\* max - min of the use-counts of group g over its pool, a phrase never drawn counting 0.
GroupSpread(g) ==
    LET keys == PoolOf(g) \cup DOMAIN mutex_counters[g]
        vals == {CounterGet(mutex_counters[g], k) : k \in keys}
    IN IF keys = {} THEN 0 ELSE MaxOf(vals) - MinOf(vals)

LastGroup == GroupKey(last.arg[3], last.arg[1], last.arg[2])

LastMutexDrawOk == last.op = "sample" /\ last.status = "ok" /\ Truthy(last.arg[3])

\* C1: in every state reached by sample and clear_cache calls made one after
\* another, every mutex group's use-counts over its pool (never drawn = 0)
\* satisfy max - min <= 1, and the assertion of sample has never failed.
C1_FairnessInvariant ==
    /\ \A g \in DOMAIN mutex_counters : GroupSpread(g) <= 1
    /\ last.status # "AssertionError"

\* C1 witness: a mutex draw that fell back to the full pool of three phrases has
\* just put one phrase at 2 while the others stay at 1.
C1_Witness ==
    /\ LastMutexDrawOk /\ last.drained
    /\ Cardinality(PoolOf(LastGroup)) = 3
    /\ mutex_counters[LastGroup][last.result] = 2
    /\ GroupSpread(LastGroup) = 1

\* C2: whenever the mutex draws made on a group since its counter was empty
\* number n*k, for k >= 1 the size of its pool and n >= 1, every phrase of the
\* pool was returned exactly n times.
C2_ExactlyNTimes ==
    \A g \in DOMAIN returned :
        LET k == Cardinality(PoolOf(g))
            t == Total(returned[g])
        IN (k >= 1 /\ t >= 1 /\ t % k = 0) =>
              \A p \in PoolOf(g) : CounterGet(returned[g], p) = t \div k

\* C2 witness: six draws on a pool of three, each phrase returned twice.
C2_Witness ==
    \E g \in DOMAIN returned :
        /\ Cardinality(PoolOf(g)) = 3
        /\ Total(returned[g]) = 6
        /\ \A p \in PoolOf(g) : CounterGet(returned[g], p) = 2

\* C7: a sample call whose mutex is None or "" changes no fairness counter, and
\* what it returns is a member of the full pool; in every state each member of
\* the full pool is a possible result of such a call.
C7_NoMutexDraw ==
    /\ [][(nops' # nops /\ last'.op = "sample" /\ ~Truthy(last'.arg[3])) =>
            /\ mutex_counters' = mutex_counters
            /\ last'.status = "ok" =>
                  last'.result \in CurrentPool(last'.arg[1], last'.arg[2])]_vars
    /\ [](\A target \in SampleTargets, mutex \in {None, <<>>} :
            \A p \in CurrentPool(target[1], target[2]) :
                ENABLED (/\ Sample(target[1], target[2], mutex)
                         /\ last'.status = "ok" /\ last'.result = p))

\* C7 witness: a no-mutex call returned a phrase that is saturated, hence not
\* eligible, in a mutex group of the same pool.
C7_Witness ==
    /\ last.op = "sample" /\ last.status = "ok" /\ ~Truthy(last.arg[3])
    /\ \E g \in DOMAIN mutex_counters :
          /\ g[2] = last.arg[1] /\ g[3] = last.arg[2]
          /\ last.result \in MostUsedKeys(mutex_counters[g])
          /\ PoolOf(g) \ MostUsedKeys(mutex_counters[g]) # {}

\* C8: right after clear_cache no pool is loaded and no fairness counter
\* exists, and the first mutex draw of every group since then is taken from the
\* group's full pool, as the first draw on a new sampler is.
C8_ClearDiscardsAll ==
    /\ last.op = "clear" => (cache = EmptyDict /\ mutex_counters = EmptyDict)
    /\ (LastMutexDrawOk /\ Total(returned[LastGroup]) = 1) =>
          /\ last.from = LoadPool(FPath(last.arg[1], last.arg[2]))
          /\ ~last.drained

\* C8 witness: the first draw of a group after a clear_cache that followed an
\* earlier load of the same pool of three.
C8_Witness ==
    /\ LastMutexDrawOk /\ Total(returned[LastGroup]) = 1
    /\ reads[FPath(last.arg[1], last.arg[2])] = 2
    /\ Cardinality(last.from) = 3

\* C9 (as stated): over the sampler's lifetime every pool file is read at most once.
C9_LoadedOncePerLifetime == \A p \in FlockPaths : reads[p] <= 1

\* C9 (amended): since construction or the last clear_cache every pool file was
\* read at most once, a pool is cached exactly when its file was read since
\* then, and the cached pool is the one that was loaded: no draw changed it.
C9_LoadedOncePerEpoch ==
    \A p \in FlockPaths :
        /\ epoch_reads[p] <= 1
        /\ p \in DOMAIN cache <=> epoch_reads[p] = 1
        /\ p \in DOMAIN cache => cache[p] = LoadPool(p)

\* C9 witness: a second mutex draw served from a pool that was loaded again
\* after a clear_cache.
C9_Witness ==
    /\ LastMutexDrawOk /\ Total(returned[LastGroup]) >= 2
    /\ reads[FPath(last.arg[1], last.arg[2])] = 2
    /\ epoch_reads[FPath(last.arg[1], last.arg[2])] = 1

\* C10 (as stated): a fallback draw leaves its group out of balance, max - min > 1.
C10_FallbackBreaksBalance ==
    (LastMutexDrawOk /\ last.drained) => GroupSpread(LastGroup) > 1

\* C10 (amended): a fallback draw puts the returned phrase one above every
\* other phrase of the pool, so max - min <= 1 still holds after it, and it
\* holds in every later state of a group that ever took a fallback draw.
C10_FallbackKeepsBalance ==
    /\ (LastMutexDrawOk /\ last.drained) =>
          \A p \in PoolOf(LastGroup) \ {last.result} :
              CounterGet(mutex_counters[LastGroup], p) + 1
                  = CounterGet(mutex_counters[LastGroup], last.result)
    /\ \A g \in drained_groups : g \in DOMAIN mutex_counters /\ GroupSpread(g) <= 1

\* C10 witness: the draw after a fallback draw on a pool of three.
C10_Witness ==
    /\ LastMutexDrawOk /\ ~last.drained
    /\ LastGroup \in drained_groups
    /\ Cardinality(PoolOf(LastGroup)) = 3
    /\ Total(mutex_counters[LastGroup]) = 5

\* The draws that group g returned, none when it returned nothing yet.
ReturnedOf(g) == IF g \in DOMAIN returned THEN returned[g] ELSE EmptyDict

\* The counter of group g before it is touched: empty when it does not exist.
CounterOf(g) == IF g \in DOMAIN mutex_counters THEN mutex_counters[g] ELSE EmptyDict

\* The step is a sample call with a non-empty mutex.
MutexCallStep == nops' # nops /\ last'.op = "sample" /\ Truthy(last'.arg[3])

\* C13: a sample call with a non-empty mutex on a non-empty pool returns a
\* phrase and raises nothing; it falls back to the full pool exactly when the
\* group's counter is not empty and every phrase of the pool has the same
\* count, the counter's maximum; and when some phrase of the pool has a
\* smaller count than the maximum, it returns a phrase that is not most-used.
C13_DrainedOnlyWhenLevel ==
    [][MutexCallStep =>
          LET g == GroupKey(last'.arg[3], last'.arg[1], last'.arg[2])
              pool == CurrentPool(last'.arg[1], last'.arg[2])
              cnt(p) == CounterGet(CounterOf(g), p)
              m == MaxOf({cnt(p) : p \in pool} \cup CounterValues(CounterOf(g)))
          IN pool # {} =>
                /\ last'.status = "ok"
                /\ last'.drained <=> (m >= 1 /\ \A p \in pool : cnt(p) = m)
                /\ last'.drained => last'.from = pool
                /\ (\E p \in pool : cnt(p) < m) =>
                      (~last'.drained /\ cnt(last'.result) < m)]_vars

\* C13 witness: a draw on the pool of three whose phrases all had the count 1
\* fell back to the full pool.
C13_Witness ==
    /\ LastMutexDrawOk /\ last.drained
    /\ Cardinality(last.from) = 3
    /\ last.from = PoolOf(LastGroup)
    /\ Total(mutex_counters[LastGroup]) = 4
    /\ \A p \in PoolOf(LastGroup) \ {last.result} : mutex_counters[LastGroup][p] = 1

\* C14: a sample call with a non-empty mutex that returns phrase r raises the
\* count of r in its group g = (mutex, category, classLabel) by exactly 1,
\* leaves every other count of g as it was, and leaves the counter of every
\* other group as it was; no group but g appears or disappears.  Checked
\* under SpecGroups.
C14_IncrementFrame ==
    [][(MutexCallStep /\ last'.status = "ok") =>
          LET g == GroupKey(last'.arg[3], last'.arg[1], last'.arg[2])
              r == last'.result
              before == CounterOf(g)
              after == mutex_counters'[g]
          IN /\ DOMAIN mutex_counters' = DOMAIN mutex_counters \cup {g}
             /\ CounterGet(after, r) = CounterGet(before, r) + 1
             /\ \A p \in (DOMAIN after \cup DOMAIN before) \ {r} :
                   CounterGet(after, p) = CounterGet(before, p)
             /\ \A h \in DOMAIN mutex_counters \ {g} :
                   mutex_counters'[h] = mutex_counters[h]]_vars

\* C14 witness: a draw on a group while three other groups hold counts: one
\* with another mutex, one of another category and one of another classLabel.
C14_Witness ==
    /\ LastMutexDrawOk
    /\ \E h1, h2, h3 \in DOMAIN mutex_counters :
          /\ h1[1] # LastGroup[1] /\ h1[2] = LastGroup[2] /\ h1[3] = LastGroup[3]
          /\ h2[1] = LastGroup[1] /\ h2[2] # LastGroup[2] /\ h2[3] = LastGroup[3]
          /\ h3[1] = LastGroup[1] /\ h3[2] = LastGroup[2] /\ h3[3] # LastGroup[3]
          /\ \A h \in {h1, h2, h3} : Total(mutex_counters[h]) >= 1
    /\ Total(mutex_counters[LastGroup]) >= 2

\* C20: in every state, for every mutex group, the use-counts sum to the
\* number of mutex draws that the group returned since construction or the
\* last clear_cache, a group that returned a draw has a counter, and every
\* phrase with a count above 0 is a member of the group's pool.
C20_CountsSumToDraws ==
    /\ DOMAIN returned \subseteq DOMAIN mutex_counters
    /\ \A g \in DOMAIN mutex_counters :
          /\ Total(mutex_counters[g]) = Total(ReturnedOf(g))
          /\ \A p \in DOMAIN mutex_counters[g] :
                mutex_counters[g][p] > 0 => p \in PoolOf(g)

\* C20 witness: after a clear_cache, two groups of the pool of three that was
\* loaded a second time hold 2 and 1 draws.
C20_Witness ==
    /\ LastMutexDrawOk
    /\ reads[FPath("participation", <<"a">>)] = 2
    /\ \E g1, g2 \in DOMAIN mutex_counters :
          /\ g1[1] # g2[1]
          /\ g1[2] = "participation" /\ g2[2] = "participation"
          /\ Total(mutex_counters[g1]) = 2 /\ Total(ReturnedOf(g1)) = 2
          /\ Total(mutex_counters[g2]) = 1

-----------------------------------------------------------------------------
(* Properties of ProjectInfoFetcher, checked under SpecInfo.               *)

RECURSIVE AllKinds(_)
\* the kinds of the Fillables of a cached value
AllKinds(items) ==
    IF items = <<>> THEN {} ELSE {Head(items).kind} \cup AllKinds(Tail(items))

\* The form of a built cache: "verbatim" when every value is made of Atoms,
\* "parsed" when none is, "mixed" otherwise.
CacheForm(c) ==
    LET kinds == UNION {AllKinds(c[k].items) : k \in DOMAIN c}
    IN IF kinds = {"Atom"} THEN "verbatim"
       ELSE IF "Atom" \notin kinds THEN "parsed" ELSE "mixed"

\* C6: a fetch that is not the first since construction or the last
\* clear_cache reads no file and leaves the cache as it is, whatever its
\* verbatim argument; the first one (also the first after a clear_cache) reads
\* each of the four files once and caches the form its own argument asks; so
\* the cached form is always the one the first fetch asked.
C6_FirstFetchWins ==
    /\ [][(info_nops' # info_nops /\ info_last'.op = "fetch") =>
            IF info_first # "none"
            THEN info_reads' = info_reads /\ info_cache' = info_cache
            ELSE /\ \A k \in InfoKeys : info_reads'[k] = info_reads[k] + 1
                 /\ DOMAIN info_cache' = InfoKeys
                 /\ CacheForm(info_cache') = FormOf(info_last'.verbatim)]_vars
    /\ [](info_first # "none" =>
            DOMAIN info_cache = InfoKeys /\ CacheForm(info_cache) = info_first)
    /\ [](info_last.op = "clear" => info_cache = EmptyDict)

\* C6 witness: a verbatim fetch answered from the parsed cache that an earlier
\* fetch built after a clear_cache; the files were read twice in all.
C6_Witness ==
    /\ info_last.op = "fetch" /\ info_last.verbatim /\ info_last.status = "ok"
    /\ info_first = "parsed"
    /\ info_last.result["program_name"].kind = "sentence"
    /\ \A k \in InfoKeys : info_reads[k] = 2

\* The step is a fetch that returned a mapping.
InfoFetchOkStep == info_nops' # info_nops /\ info_last'.op = "fetch" /\ info_last'.status = "ok"

\* C17: every fetch that succeeds returns a mapping with exactly the four
\* keys, whose date is an element of the cached date list and whose other
\* values are the cached values; a fetch on a built cache leaves the cache as
\* it is; and on a built cache every element of the date list is a possible
\* result of the next fetch, whatever its verbatim argument.
C17_FetchResult ==
    /\ [][InfoFetchOkStep =>
            LET r == info_last'.result
            IN /\ DOMAIN r = InfoKeys
               /\ DOMAIN info_cache' = InfoKeys
               /\ info_cache'["date"].islist
               /\ \E j \in 1..Len(info_cache'["date"].items) :
                     r["date"] = info_cache'["date"].items[j]
               /\ \A k \in InfoKeys \ {"date"} :
                     ~info_cache'[k].islist /\ r[k] = info_cache'[k].items[1]
               /\ info_cache # EmptyDict => info_cache' = info_cache]_vars
    /\ []((info_cache # EmptyDict /\ info_nops < MaxInfoOps) =>
            \A j \in 1..Len(info_cache["date"].items) :
                /\ ENABLED (/\ InfoFetchVerbatim
                            /\ info_last'.status = "ok"
                            /\ info_last'.result["date"] = info_cache["date"].items[j])
                /\ ENABLED (/\ InfoFetchParsed
                            /\ info_last'.status = "ok"
                            /\ info_last'.result["date"] = info_cache["date"].items[j]))

\* C17 witness: a fetch on a cache of three dates that an earlier fetch built
\* returned the third date.
C17_Witness ==
    /\ info_last.op = "fetch" /\ info_last.status = "ok"
    /\ info_nops >= 2 /\ \A k \in InfoKeys : info_reads[k] = 1
    /\ Len(info_cache["date"].items) = 3
    /\ info_last.result["date"] = info_cache["date"].items[3]
    /\ info_last.result["date"].text = <<"3">>
    /\ info_last.result["program_name"] = info_cache["program_name"].items[1]

-----------------------------------------------------------------------------
(* Properties of StudentFetcher, checked under SpecStudent.                *)

\* fetch has returned its list of slot mappings
FetchDone == stu_last.op = "fetch" /\ stu_last.status = "ok" /\ stu_pc = Idle

NumRows == Len(stu_cache.rows)

\* The trimmed mutex value of a roster row, <<>> when the row has none.
TrimmedMutex(row) ==
    IF "mutex" \in DOMAIN row /\ row["mutex"] # NaN THEN Strip(row["mutex"]) ELSE <<>>

\* The rows that share row i's trimmed mutex value and its grade in col.
SameGroupRows(i, col) ==
    {j \in 1..NumRows :
        /\ TrimmedMutex(stu_cache.rows[j]) = TrimmedMutex(stu_cache.rows[i])
        /\ stu_cache.rows[j][col] = stu_cache.rows[i][col]}

\* The phrase that row j received in column col.
Received(j, col) == PhraseOf(stu_last.result[j][SlotTag(col)])

\* In every evaluation column, the rows that share a trimmed non-empty mutex
\* value and a grade received each phrase of the pool equally often, up to 1,
\* and pairwise different phrases when they are no more than the pool.
BatchFair ==
    \A c \in 1..Len(EvalCols), i \in 1..NumRows :
        LET col == EvalCols[c]
            R == SameGroupRows(i, col)
            pool == LoadPool(FPath(col, Lower(stu_cache.rows[i][col])))
            N(p) == Cardinality({j \in R : Received(j, col) = p})
        IN TrimmedMutex(stu_cache.rows[i]) # <<>> =>
              /\ \A p \in pool, q \in pool : N(p) - N(q) <= 1
              /\ Cardinality(R) <= Cardinality(pool) =>
                    \A j \in R, k \in R : j # k => Received(j, col) # Received(k, col)

\* C3 (as stated): every fetch that binds the roster through the shared
\* FlockFetcher is fair in this sense.
C3_EveryFetchFair == FetchDone => BatchFair

\* C3 (amended): a fetch that began with a FlockFetcher holding no fairness
\* counter (new, or cleared since its last draws) is fair in this sense.
C3_FreshFetchFair == (FetchDone /\ stu_fresh) => BatchFair

\* C3 witness: a second fetch, after a clear_cache of the FlockFetcher, bound two
\* rows whose mutex cells differ only by whitespace and whose participation
\* grade has a pool of three phrases.
C3_Witness ==
    /\ FetchDone /\ stu_fresh /\ NumRows = 2
    /\ reads[FPath("participation", <<"a">>)] = 2
    /\ "mutex" \in Range(stu_file.header)
    /\ stu_file.rows[1]["mutex"] # stu_file.rows[2]["mutex"]
    /\ TrimmedMutex(stu_cache.rows[1]) # <<>>
    /\ SameGroupRows(1, "participation") = {1, 2}
    /\ Received(1, "participation") # Received(2, "participation")

Readable(file) == file.exists /\ file.decodes

MissingColumns(file) == Range(BasicColumns) \ Range(file.header)

\* A cell as the row check sees it: trimmed, the first letter in upper case.
Normalized(cell) == Capitalize(Strip(cell))

UnknownGender(file) ==
    \E i \in 1..Len(file.rows) :
        Normalized(file.rows[i]["gender"]) \notin {<<"M">>, <<"F">>}

UnknownGrade(file) ==
    \E i \in 1..Len(file.rows), col \in {"assignment", "participation", "final", "overall"} :
        Normalized(file.rows[i][col]) \notin {<<"A">>, <<"B">>, <<"C">>, <<"D">>}

LoadFailed(kinds) ==
    /\ stu_last.load = "ValueError" /\ stu_last.status = "ValueError"
    /\ stu_last.err.kind \in kinds
    /\ stu_last.result = <<>> /\ stu_pc = Idle

\* C4: a call that loads a roster file that exists and decodes (set_cache, or
\* fetch while self.cache is None) fails and returns no slot mapping when a
\* basic column is missing, the error naming a missing column, or when a row's
\* gender is not M or F or one of its four grades is not in A..D (cells taken
\* as normalized); otherwise the load succeeds.
C4_RosterValidation ==
    (stu_last.ran_load /\ Readable(stu_file)) =>
        IF MissingColumns(stu_file) # {}
        THEN LoadFailed({"missing_column"}) /\ stu_last.err.col \in MissingColumns(stu_file)
        ELSE IF UnknownGender(stu_file) \/ UnknownGrade(stu_file)
        THEN LoadFailed({"gender", "grade"})
        ELSE stu_last.load = "ok" /\ stu_cache.present

\* C4 witness: fetch on an unloaded roster with all columns was refused for the
\* grade E in column final.
C4_Witness ==
    /\ stu_last.op = "fetch" /\ stu_last.ran_load /\ Readable(stu_file)
    /\ MissingColumns(stu_file) = {}
    /\ LoadFailed({"grade"}) /\ stu_last.err.col = "final"
    /\ stu_file.rows[stu_last.err.row]["final"] = <<"E">>

PronounSlots == {"he", "him", "his", "himself", "He", "Him", "His", "Himself"}

EvalSlots == {SlotTag(EvalCols[c]) : c \in 1..Len(EvalCols)}

TextsOf(d, slots) == [k \in 1..Len(slots) |-> d[slots[k]].text]

\* The pronouns of mapping d are those of gender.
PronounsRight(d, gender) ==
    /\ gender = <<"M">> =>
          /\ TextsOf(d, <<"he", "him", "his", "himself">>)
               = << <<"h", "e">>, <<"h", "i", "m">>, <<"h", "i", "s">>,
                    <<"h", "i", "m", "s", "e", "l", "f">> >>
          /\ TextsOf(d, <<"He", "Him", "His", "Himself">>)
               = << <<"H", "e">>, <<"H", "i", "m">>, <<"H", "i", "s">>,
                    <<"H", "i", "m", "s", "e", "l", "f">> >>
    /\ gender = <<"F">> =>
          /\ TextsOf(d, <<"he", "him", "his", "himself">>)
               = << <<"s", "h", "e">>, <<"h", "e", "r">>, <<"h", "e", "r">>,
                    <<"h", "e", "r", "s", "e", "l", "f">> >>
          /\ TextsOf(d, <<"He", "Him", "His", "Himself">>)
               = << <<"S", "h", "e">>, <<"H", "e", "r">>, <<"H", "e", "r">>,
                    <<"H", "e", "r", "s", "e", "l", "f">> >>

NoAdditionalColumns == Range(stu_file.header) \subseteq Range(BasicColumns)

SeedSlots(d) == DOMAIN d \ EvalSlots

\* C5 (as stated): every mapping that fetch returns binds the pronouns of the
\* row's gender, and for a roster without additional columns it has the four
\* evaluation slots and ten more entries, all of them pronoun forms.
C5_TenPronounSeeds ==
    FetchDone =>
        \A i \in 1..NumRows :
            /\ PronounsRight(stu_last.result[i], stu_cache.rows[i]["gender"])
            /\ NoAdditionalColumns =>
                  /\ EvalSlots \subseteq DOMAIN stu_last.result[i]
                  /\ Cardinality(DOMAIN stu_last.result[i]) = 14
                  /\ Cardinality(SeedSlots(stu_last.result[i])) = 10
                  /\ SeedSlots(stu_last.result[i]) \subseteq PronounSlots

\* C5 (amended): every mapping that fetch returns binds the pronouns of the
\* row's gender, and for a roster without additional columns it has the four
\* evaluation slots and ten more entries: first_name, last_name and the eight
\* pronoun forms.
C5_EightPronounsTwoNames ==
    FetchDone =>
        \A i \in 1..NumRows :
            /\ PronounsRight(stu_last.result[i], stu_cache.rows[i]["gender"])
            /\ NoAdditionalColumns =>
                  /\ EvalSlots \subseteq DOMAIN stu_last.result[i]
                  /\ Cardinality(DOMAIN stu_last.result[i]) = 14
                  /\ Cardinality(SeedSlots(stu_last.result[i])) = 10
                  /\ SeedSlots(stu_last.result[i])
                        = PronounSlots \cup {"first_name", "last_name"}
                  /\ stu_last.result[i]["first_name"].text = stu_cache.rows[i]["first_name"]

\* C5 witness: fetch bound a roster of the basic columns alone with an M row
\* (written " m" in the file) and an F row.
C5_Witness ==
    /\ FetchDone /\ NoAdditionalColumns /\ NumRows = 2
    /\ stu_file.rows[1]["gender"] = <<" ", "m">>
    /\ stu_cache.rows[1]["gender"] = <<"M">>
    /\ stu_cache.rows[2]["gender"] = <<"F">>
    /\ stu_last.result[1]["he"].text = <<"h", "e">>
    /\ stu_last.result[2]["he"].text = <<"s", "h", "e">>

\* The cached roster has every basic column and every row of it passes the
\* row check.
CacheValidated ==
    /\ stu_cache.present
    /\ Range(BasicColumns) \subseteq Range(stu_cache.header)
    /\ CheckRows(stu_cache) = NoErr

\* C12 (as stated): fetch returns slot mappings only for a roster that passed
\* the column check and the row check, and a set_cache or fetch that failed
\* with a validation error leaves no roster cached.
C12_FetchOnlyValidated ==
    /\ (FetchDone /\ stu_last.result # <<>>) => CacheValidated
    /\ (stu_last.op \in {"set_cache", "fetch"} /\ stu_last.load = "ValueError"
            /\ stu_last.err.kind \in {"missing_column", "gender", "grade"})
          => ~stu_cache.present

SeedKeys == PronounSlots \cup {"first_name", "last_name"}

\* The evaluation slots in the order the claim gives.
EvalOrder == <<"sent_participation", "sent_overall", "sent_assignment", "sent_final">>

\* C15: in every mapping that fetch returns, each evaluation slot was filled
\* against the ten seed entries and the evaluation slots before it in the
\* order participation, overall, assignment, final, and nothing else; each
\* additional-column slot was filled against the seeds, all four evaluation
\* slots and the additional columns before it; the seeds were never filled.
C15_BindOrder ==
    FetchDone =>
        \A i \in 1..NumRows :
            LET d == stu_last.result[i]
            IN /\ \A k \in SeedKeys : d[k].seen = {}
               /\ \A c \in 1..Len(EvalOrder) :
                     d[EvalOrder[c]].seen = SeedKeys \cup {EvalOrder[b] : b \in 1..(c - 1)}
               /\ \A j \in 1..Len(additional_columns) :
                     d[additional_columns[j]].seen =
                        SeedKeys \cup Range(EvalOrder)
                                 \cup {additional_columns[b] : b \in 1..(j - 1)}
               /\ DOMAIN d = SeedKeys \cup Range(EvalOrder) \cup Range(additional_columns)

\* C15 witness: fetch bound two rows of a roster with an additional column,
\* whose slot saw the seeds and the four evaluation slots.
C15_Witness ==
    /\ FetchDone /\ NumRows = 2
    /\ additional_columns = <<"mutex">>
    /\ stu_last.result[2]["mutex"].seen = SeedKeys \cup Range(EvalOrder)
    /\ stu_last.result[2]["sent_participation"].seen = SeedKeys
    /\ "sent_assignment" \notin stu_last.result[2]["sent_overall"].seen

\* The gender and grade cells that differ from a valid one at most by the
\* case of the letter; surrounding whitespace comes on top.
AcceptedGenders == {<<"M">>, <<"F">>, <<"m">>, <<"f">>}

AcceptedGrades ==
    {<<"A">>, <<"B">>, <<"C">>, <<"D">>, <<"a">>, <<"b">>, <<"c">>, <<"d">>}

\* Every gender and grade cell of the file is a valid value up to surrounding
\* whitespace and the case of its letter.
FileAcceptable ==
    \A i \in 1..Len(stu_file.rows) :
        /\ Strip(stu_file.rows[i]["gender"]) \in AcceptedGenders
        /\ \A c \in 1..Len(GradeCols) :
              Strip(stu_file.rows[i][GradeCols[c]]) \in AcceptedGrades

\* A text without surrounding whitespace whose first letter is not lower case.
IsNormal(v) ==
    /\ v # <<>> => (Head(v) # " " /\ v[Len(v)] # " ")
    /\ v # <<>> => Head(v) \notin DOMAIN UpperOf

\* C16: a load of a roster file that decodes and has every basic column
\* succeeds when its gender and grade cells are valid up to surrounding
\* whitespace and the case of the first letter; the cached table then holds,
\* in every basic column, the file's cell trimmed and with its first letter in
\* upper case; and the mappings that fetch returns are bound from these
\* values: the name as normalized, the pronouns of the normalized gender and a
\* phrase of the pool of the normalized grade.
C16_NormalizedBeforeCheck ==
    /\ (stu_last.ran_load /\ Readable(stu_file) /\ MissingColumns(stu_file) = {}) =>
          /\ FileAcceptable => stu_last.load = "ok"
          /\ \A i \in 1..Len(stu_file.rows), c \in 1..Len(BasicColumns) :
                /\ stu_cache.rows[i][BasicColumns[c]]
                      = Capitalize(Strip(stu_file.rows[i][BasicColumns[c]]))
                /\ IsNormal(stu_cache.rows[i][BasicColumns[c]])
    /\ (FetchDone /\ MissingColumns(stu_file) = {}) =>
          \A i \in 1..NumRows :
              LET d == stu_last.result[i]
                  raw == stu_file.rows[i]
              IN /\ d["first_name"].text = Capitalize(Strip(raw["first_name"]))
                 /\ d["he"].text = <<"h", "e">> <=> Strip(raw["gender"]) \in {<<"M">>, <<"m">>}
                 /\ \A c \in 1..Len(EvalCols) :
                       Received(i, EvalCols[c])
                          \in LoadPool(FPath(EvalCols[c], Lower(Strip(raw[EvalCols[c]]))))

\* C16 witness: fetch loaded and bound a roster whose row has the gender " m",
\* the participation grade "a " and the first name " bo".
C16_Witness ==
    /\ FetchDone /\ stu_last.ran_load /\ stu_last.load = "ok" /\ NumRows >= 1
    /\ stu_file.rows[1]["gender"] = <<" ", "m">>
    /\ stu_file.rows[1]["participation"] = <<"a", " ">>
    /\ stu_cache.rows[1]["participation"] = <<"A">>
    /\ stu_last.result[1]["first_name"].text = <<"B", "o">>
    /\ stu_last.result[1]["he"].text = <<"h", "e">>

\* The pool file that the fetch in progress asks for next.
NextPath ==
    LET col == EvalCols[stu_pc.col]
    IN FPath(col, Lower(stu_cache.rows[stu_pc.row][col]))

\* C18: when the fetch in progress asks for a pool whose file is absent, the
\* sample call ends with FileNotFoundError, no pool is added to the cache, no
\* file is read and no fairness counter changes; fetch ends with the same
\* error at once, returns no mapping and drops the rows bound so far.
C18_AbsentPoolAborts ==
    [][(/\ stu_pc # Idle
        /\ EvalCols[stu_pc.col] \in DOMAIN stu_cache.rows[stu_pc.row]
        /\ ~FileExists(NextPath)) =>
          /\ last'.op = "sample" /\ last'.status = "FileNotFoundError"
          /\ FPath(last'.arg[1], last'.arg[2]) = NextPath
          /\ cache' = cache /\ NextPath \notin DOMAIN cache'
          /\ reads' = reads
          /\ mutex_counters' = mutex_counters
          /\ stu_last'.op = "fetch" /\ stu_last'.status = "FileNotFoundError"
          /\ stu_last'.result = <<>>
          /\ stu_pc' = Idle /\ stu_out' = <<>> /\ stu_d' = EmptyDict]_vars

\* C18 witness: fetch loaded a valid roster, bound its first row with mutex
\* draws, and ended with FileNotFoundError at the second row, whose
\* participation grade C has no pool file.
C18_Witness ==
    /\ stu_last.op = "fetch" /\ stu_last.status = "FileNotFoundError"
    /\ stu_last.load = "ok" /\ stu_last.result = <<>> /\ stu_pc = Idle
    /\ last.status = "FileNotFoundError"
    /\ last.arg[1] = "participation" /\ last.arg[2] = <<"c">>
    /\ NumRows = 2 /\ stu_cache.rows[2]["participation"] = <<"C">>
    /\ mutex_counters # EmptyDict
    /\ FPath("participation", <<"c">>) \notin DOMAIN cache

\* C19: get_controller leaves the new batch with no pool cached, no fairness
\* counter, no roster and no project metadata cached; in every state the
\* fairness counts are exactly the mutex draws of the current batch and every
\* cached pool was read in the current batch; so a fetch that starts before
\* its batch drew anything starts without counters, whatever earlier batches
\* drew, and is fair among the rows of its batch.  Checked under SpecHandle.
C19_BatchesIsolated ==
    /\ [][batch' # batch =>
            /\ cache' = EmptyDict /\ mutex_counters' = EmptyDict
            /\ ~stu_cache'.present /\ info_cache' = EmptyDict]_vars
    /\ [](\A g \in DOMAIN mutex_counters :
            \A p \in DOMAIN mutex_counters[g] \cup DOMAIN ReturnedOf(g) :
                CounterGet(mutex_counters[g], p) = CounterGet(ReturnedOf(g), p))
    /\ [](\A p \in DOMAIN cache : epoch_reads[p] = 1)
    /\ [][(stu_pc = Idle /\ stu_pc' # Idle /\ returned = EmptyDict) => stu_fresh']_vars
    /\ []((FetchDone /\ stu_fresh) => BatchFair)

\* C19 witness: the second batch bound two rows of one mutex group with
\* different phrases of a pool that the first batch had read and drawn from.
C19_Witness ==
    /\ batch = 2 /\ FetchDone /\ stu_fresh /\ NumRows = 2
    /\ reads[FPath("participation", <<"a">>)] = 2
    /\ epoch_reads[FPath("participation", <<"a">>)] = 1
    /\ SameGroupRows(1, "participation") = {1, 2}
    /\ Received(1, "participation") # Received(2, "participation")
    /\ Total(mutex_counters[GroupKey(<<"m">>, "participation", <<"a">>)]) = 2

-----------------------------------------------------------------------------
(* Properties of a FlockFetcher called by two threads, checked under       *)
(* SpecThreads.                                                            *)

\* An increment of group g was lost: its counts sum to less than its draws.
LostIncrement(g) == Total(mutex_counters[g]) < Total(ReturnedOf(g))

AllIdle == \A t \in Threads : threads[t].pc = "idle"

\* C11: as long as no sample call on a mutex group began while another call
\* on that group was between its choice and its increment, the group's counts
\* satisfy max - min <= 1, no increment is lost and no call on it fails its
\* assertion; when two calls on a group do interleave there, a state with
\* max - min > 1 or a lost increment is reachable, and a later call on the
\* group fails its assertion (the witnesses).
C11_RaceBreaksFairness ==
    /\ \A g \in DOMAIN mutex_counters :
          g \notin raced => (GroupSpread(g) <= 1 /\ ~LostIncrement(g))
    /\ last.status = "AssertionError" => LastGroup \in raced

\* C11 witness: after two interleaved calls on a group left its counts with
\* max - min > 1, a later call on that group failed its assertion.
C11_Witness ==
    /\ AllIdle
    /\ last.op = "sample" /\ last.status = "AssertionError"
    /\ LastGroup \in raced
    /\ GroupSpread(LastGroup) > 1

\* Two interleaved calls on a group lost an increment.
C11_LostIncrementReached ==
    /\ AllIdle
    /\ \E g \in raced : LostIncrement(g) /\ GroupSpread(g) <= 1

====
